---- MODULE Spec2Model ----
(***************************************************************************)
(* ddns-cloudflare.py: one run of main().  The run looks up the A record   *)
(* of FQDN at the DNS provider, asks the IP-echo services (in shuffled     *)
(* order) for the current address, compares, and updates the record with   *)
(* one PUT when the two differ.                                            *)
(*                                                                         *)
(* The program is single-threaded and blocks on every HTTP call.  A call   *)
(* is two steps of the model: the remote side answers (the reply is put    *)
(* in flight), then the program runs from the point where the call         *)
(* returns up to its next HTTP call or to its end.  The call of           *)
(* get_current_ip by main and its return to main are steps of their own:   *)
(* the function's locals (services, the loop position, response) exist     *)
(* between the two.                                                        *)
(*                                                                         *)
(* Python values: a str is a sequence of tokens (Text); an optional value  *)
(* is None (the empty tuple) or Some(v) (the one-element tuple of v).      *)
(***************************************************************************)
EXTENDS Integers, Sequences, FiniteSets, TLC

VARIABLES
    pc,          \* where main() stands: "main", the call it is in, "exit" or "abort"
    inflight,    \* the HTTP reply on its way to the blocked call: None or Some(reply)
    sent,        \* every HTTP request issued so far, in order
    record,      \* main: record (None or Some(record))
    services,    \* get_current_ip: services, after the shuffle (<<>> outside the call)
    i,           \* get_current_ip: position of the for loop in services
    response,    \* get_current_ip: response (None before the first reply)
    resolver,    \* get_current_ip: "idle", "running", "returned" or "raised"
    current_ip,  \* the value get_current_ip returned, main's current_ip
    warned,      \* the services LOG.warning reported as failed, in order
    log,         \* the status lines main() logged, in order
    error        \* the exception that left main(): None or Some(name)

vars == <<pc, inflight, sent, record, services, i, response, resolver,
          current_ip, warned, log, error>>

-----------------------------------------------------------------------------
(* Bounds of the model *)

\* longest plain-text body an IP-echo service returns, in tokens
MaxText == 2
\* most records the provider lists for the zone; record ids are 1..MaxRecords
MaxRecords == 2

-----------------------------------------------------------------------------
(* Python values *)

None == <<>>
Some(v) == <<v>>

\* the tokens of a plain-text body: an address and a line end
Addr == "9.9.9.9"
OtherAddr == "5.6.7.8"
Whitespace == {"\n"}
Tokens == {Addr} \cup Whitespace

RECURSIVE lstrip(_)
lstrip(s) ==
    IF s /= <<>> /\ Head(s) \in Whitespace THEN lstrip(Tail(s)) ELSE s

RECURSIVE rstrip(_)
rstrip(s) ==
    IF s /= <<>> /\ s[Len(s)] \in Whitespace
    THEN rstrip(SubSeq(s, 1, Len(s) - 1)) ELSE s

\* str.strip()
strip(s) == rstrip(lstrip(s))

\* every Text of at most n tokens
TextsUpTo(n) == UNION {[1..k -> Tokens] : k \in 0..n}

(* A parsed JSON value: its type, the members of an object as <<key, text>> *)
(* pairs, and the length of an array or string / the value of a number or  *)
(* boolean.  NotJson is a body response.json() raises ValueError on.       *)
JObject(m) == [type |-> "object", members |-> m, size |-> Cardinality(m)]
JArray(n) == [type |-> "array", members |-> {}, size |-> n]
JNumber(n) == [type |-> "number", members |-> {}, size |-> n]
JString(n) == [type |-> "string", members |-> {}, size |-> n]
JBool(n) == [type |-> "bool", members |-> {}, size |-> n]
JNull == [type |-> "null", members |-> {}, size |-> 0]
NotJson == [type |-> "invalid", members |-> {}, size |-> 0]

\* dict.get(key, None)
\* (faulty variant: the default is "" instead of None)
DictGetOrEmpty(j, key) ==
    IF \E m \in j.members : m[1] = key
    THEN Some((CHOOSE m \in j.members : m[1] = key)[2])
    ELSE Some(<<>>)
DictGet(j, key) ==
    IF \E m \in j.members : m[1] = key
    THEN Some((CHOOSE m \in j.members : m[1] = key)[2])
    ELSE None

\* Python truth value of a parsed JSON value
\* (faulty variant: any object counts as true, anything else as false)
TruthyObjectOnly(j) == j.type = "object"
Truthy(j) ==
    CASE j.type = "object" -> j.members /= {}
      [] j.type = "null" -> FALSE
      [] OTHER -> j.size /= 0

-----------------------------------------------------------------------------
(* Configuration *)

A_RECORD_NAME == "home"
BASE_DOMAIN == "example.org"
\* f'{A_RECORD_NAME}.{DOMAIN}'
FQDN == "home.example.org"
OtherName == "www.example.org"

\* get_current_ip: services
Services ==
    <<"api.ipify.org", "api.myip.com", "ipinfo.io",
      "checkip.amazonaws.com", "ident.me">>

\* random.shuffle(services): every order of the list
Shuffles ==
    {[k \in DOMAIN Services |-> Services[q[k]]] : q \in Permutations(DOMAIN Services)}

-----------------------------------------------------------------------------
(* What the remote sides can answer *)

\* a reply with no HTTP response at all: the call raises ConnectionError
NoReply == [exc |-> "ConnectionError", status |-> 0, text |-> <<>>, json |-> NotJson]
HttpReply(st, t, j) == [exc |-> "", status |-> st, text |-> t, json |-> j]

ErrorStatuses == {404, 500}

IpObject == JObject({<<"ip", <<Addr>>>>, <<"cc", <<"XX">>>>})
OtherIpObject == JObject({<<"ip", <<OtherAddr>>>>})
NoIpObject == JObject({<<"cc", <<"XX">>>>})

\* bodies of an IP-echo service: plain text, and JSON of every shape
EchoBodies ==
    {[text |-> t, json |-> NotJson] : t \in TextsUpTo(MaxText)}
    \cup {[text |-> <<"{ip,cc}">>, json |-> IpObject],
          [text |-> <<"{ip}">>, json |-> OtherIpObject],
          [text |-> <<"{cc}", "\n">>, json |-> NoIpObject],
          [text |-> <<"{}">>, json |-> JObject({})],
          [text |-> <<"[ip]">>, json |-> JArray(1)],
          [text |-> <<"7">>, json |-> JNumber(7)],
          [text |-> <<"'ip'">>, json |-> JString(2)],
          [text |-> <<"null">>, json |-> JNull]}

EchoReplies ==
    {NoReply}
    \cup {HttpReply(st, <<>>, NotJson) : st \in ErrorStatuses}
    \cup {HttpReply(200, b.text, b.json) : b \in EchoBodies}

\* a DNS record as the provider lists it
Records ==
    [id : 1..MaxRecords, name : {FQDN, OtherName}, content : {None, Some(<<Addr>>)}]

RecordLists == UNION {[1..k -> Records] : k \in 0..MaxRecords}

\* replies to GET dns_records: result is None when the object has no "result"
ListReply(st, j, res) == [exc |-> "", status |-> st, json |-> j, result |-> res]
LookupReplies ==
    {[exc |-> "ConnectionError", status |-> 0, json |-> NotJson, result |-> None]}
    \cup {ListReply(st, JObject({<<"success", <<"false">>>>}), None) : st \in ErrorStatuses}
    \cup {ListReply(200, NotJson, None),
          ListReply(200, JObject({<<"success", <<"false">>>>}), None)}
    \cup {ListReply(200, JObject({<<"success", <<"true">>>>}), Some(l)) : l \in RecordLists}

\* replies to PUT dns_records/{id}
PutReplies ==
    {NoReply}
    \cup {HttpReply(st, <<>>, j) :
            st \in ErrorStatuses, j \in {NotJson, JObject({<<"success", <<"false">>>>})}}
    \cup {HttpReply(200, <<>>, j) :
            j \in {NotJson, JObject({<<"success", <<"true">>>>}), JObject({}),
                   JArray(0), JNull, JBool(0), JNumber(0)}}

-----------------------------------------------------------------------------
(* The program's functions *)

\* the exception session.request / requests.get and raise_for_status raise
\* on a reply ("" when neither raises)
\* (faulty variant: raise_for_status is not called)
RaisedByNoStatusCheck(r) == r.exc
RaisedBy(r) ==
    IF r.exc /= "" THEN r.exc
    ELSE IF r.status >= 400 /\ r.status < 600 THEN "HTTPError"
    ELSE ""

\* the requests the program issues
LookupRequest ==
    [method |-> "GET", url |-> "dns_records", id |-> None, data |-> None]
EchoRequest(service) ==
    [method |-> "GET", url |-> service, id |-> None, data |-> None]

\* Cloudflare.update_dns_record: the PUT it sends
\* (faulty variant: the address is left out of the body)
update_dns_record_nocontent(record_id, ip_address) ==
    [method |-> "PUT", url |-> "dns_records", id |-> Some(record_id),
     data |-> Some([type |-> "A", name |-> A_RECORD_NAME, content |-> None,
                    ttl |-> 1, proxied |-> FALSE])]
update_dns_record(record_id, ip_address) ==
    [method |-> "PUT", url |-> "dns_records", id |-> Some(record_id),
     data |-> Some([type |-> "A", name |-> A_RECORD_NAME, content |-> ip_address,
                    ttl |-> 1, proxied |-> FALSE])]

\* Cloudflare.record_by_name: the dict comprehension keeps the last record
\* of each name; .get(FQDN) is None when no record has that name
\* (faulty variant: the last record is taken whatever its name)
record_by_name_anyname(records) ==
    IF records = <<>> THEN None ELSE Some(records[Len(records)])
record_by_name(records) ==
    LET hits == {k \in DOMAIN records : records[k].name = FQDN}
    IN  IF hits = {} THEN None
        ELSE Some(records[CHOOSE k \in hits : \A h \in hits : h <= k])

\* main: record_ip == current_ip
\* (faulty variants: an absent address never matches / always matches)
SameIpUnlessAbsent(record_ip, ip) == record_ip = ip /\ ip /= None
SameIpOrAbsent(record_ip, ip) == record_ip = ip \/ ip = None
SameIp(record_ip, ip) == record_ip = ip

\* get_current_ip: the for loop's next position
\* (faulty variant: the loop stays on the same service)
NextIndexStuck(k) == k
NextIndex(k) == k + 1

\* the status lines of main()
Matches == "Current IP matches"
Updated == "Successfully updated"
Failed == "Failed to update DNS record"
NoRecord == "No A record found"

-----------------------------------------------------------------------------
Init ==
    /\ pc = "main"
    /\ inflight = None
    /\ sent = <<>>
    /\ record = None
    /\ services = <<>>
    /\ i = 0
    /\ response = None
    /\ resolver = "idle"
    /\ current_ip = None
    /\ warned = <<>>
    /\ log = <<>>
    /\ error = None

\* an exception leaves main(): the process ends with a traceback
Abort(exc) ==
    /\ pc' = "abort"
    /\ error' = Some(exc)

\* main up to the GET of Cloudflare.dns_records
Main ==
    /\ pc = "main"
    /\ sent' = Append(sent, LookupRequest)
    /\ pc' = "dns_records"
    /\ UNCHANGED <<inflight, record, services, i, response, resolver,
                   current_ip, warned, log, error>>

\* the DNS provider answers the lookup
ProviderAnswersLookup ==
    /\ pc = "dns_records"
    /\ inflight = None
    /\ \E r \in LookupReplies : inflight' = Some(r)
    /\ UNCHANGED <<pc, sent, record, services, i, response, resolver,
                   current_ip, warned, log, error>>

\* the lookup returns: _request, dns_records, record_by_name, then main
\* either reports that there is no record or goes on to get_current_ip
LookupReturns ==
    /\ pc = "dns_records"
    /\ inflight /= None
    /\ inflight' = None
    /\ LET r == inflight[1] IN
       IF RaisedBy(r) /= ""
       THEN /\ Abort(RaisedBy(r))
            /\ UNCHANGED <<record, log>>
       ELSE IF r.json.type = "invalid"
       THEN /\ Abort("ValueError")
            /\ UNCHANGED <<record, log>>
       ELSE IF r.result = None
       THEN /\ Abort("TypeError")
            /\ UNCHANGED <<record, log>>
       ELSE LET found == record_by_name(r.result[1]) IN
            /\ record' = found
            /\ IF found /= None
               THEN /\ pc' = "resolve"
                    /\ UNCHANGED <<log, error>>
               ELSE /\ log' = Append(log, NoRecord)
                    /\ pc' = "exit"
                    /\ UNCHANGED error
    /\ UNCHANGED <<sent, services, i, response, resolver, current_ip, warned>>

\* main calls get_current_ip, which shuffles the services and calls the
\* first one
GetCurrentIp ==
    /\ pc = "resolve"
    /\ \E p \in Shuffles :
          /\ services' = p
          /\ sent' = Append(sent, EchoRequest(p[1]))
    /\ i' = 1
    /\ resolver' = "running"
    /\ pc' = "get_current_ip"
    /\ UNCHANGED <<inflight, record, response, current_ip, warned, log, error>>

\* the IP-echo service being called answers
ServiceAnswers ==
    /\ pc = "get_current_ip"
    /\ inflight = None
    /\ \E r \in EchoReplies : inflight' = Some(r)
    /\ UNCHANGED <<pc, sent, record, services, i, response, resolver,
                   current_ip, warned, log, error>>

\* get_current_ip: return value
Return(value) ==
    /\ resolver' = "returned"
    /\ current_ip' = value
    /\ pc' = "compare"
    /\ UNCHANGED <<sent, i, log, error>>

\* requests.get returns in get_current_ip: one turn of the for loop
ServiceReturns ==
    /\ pc = "get_current_ip"
    /\ inflight /= None
    /\ inflight' = None
    /\ response' = inflight
    /\ LET r == inflight[1] IN
       IF RaisedBy(r) /= ""
       THEN /\ warned' = Append(warned, services[i])
            /\ IF i < Len(services)
               THEN /\ i' = NextIndex(i)
                    /\ sent' = Append(sent, EchoRequest(services[NextIndex(i)]))
                    /\ UNCHANGED <<pc, resolver, current_ip, log, error>>
               ELSE Return(None)
       ELSE IF r.json.type = "invalid"
       THEN /\ Return(Some(strip(r.text)))
            /\ UNCHANGED warned
       ELSE IF r.json.type = "object"
       THEN /\ Return(DictGet(r.json, "ip"))
            /\ UNCHANGED warned
       ELSE /\ resolver' = "raised"
            /\ Abort("AttributeError")
            /\ UNCHANGED <<sent, i, current_ip, warned, log>>
    /\ UNCHANGED <<record, services>>

\* main takes the value get_current_ip returned, compares it with the
\* record's content, and sends the PUT when they differ
Compare ==
    /\ pc = "compare"
    /\ services' = <<>>
    /\ i' = 0
    /\ response' = None
    /\ IF SameIp(record[1].content, current_ip)
       THEN /\ log' = Append(log, Matches)
            /\ pc' = "exit"
            /\ UNCHANGED sent
       ELSE /\ sent' = Append(sent, update_dns_record(record[1].id, current_ip))
            /\ pc' = "update_dns_record"
            /\ UNCHANGED log
    /\ UNCHANGED <<inflight, record, resolver, current_ip, warned, error>>

\* the DNS provider answers the update
ProviderAnswersUpdate ==
    /\ pc = "update_dns_record"
    /\ inflight = None
    /\ \E r \in PutReplies : inflight' = Some(r)
    /\ UNCHANGED <<pc, sent, record, services, i, response, resolver,
                   current_ip, warned, log, error>>

\* the update returns: _request, then main reports the outcome
UpdateReturns ==
    /\ pc = "update_dns_record"
    /\ inflight /= None
    /\ inflight' = None
    /\ LET r == inflight[1] IN
       IF RaisedBy(r) /= ""
       THEN /\ Abort(RaisedBy(r))
            /\ UNCHANGED log
       ELSE IF r.json.type = "invalid"
       THEN /\ Abort("ValueError")
            /\ UNCHANGED log
       ELSE /\ log' = Append(log, IF Truthy(r.json) THEN Updated ELSE Failed)
            /\ pc' = "exit"
            /\ UNCHANGED error
    /\ UNCHANGED <<sent, record, services, i, response, resolver,
                   current_ip, warned>>

Next ==
    \/ Main
    \/ ProviderAnswersLookup
    \/ LookupReturns
    \/ GetCurrentIp
    \/ ServiceAnswers
    \/ ServiceReturns
    \/ Compare
    \/ ProviderAnswersUpdate
    \/ UpdateReturns

Spec == Init /\ [][Next]_vars

\* every HTTP call returns, with a reply or with an exception
FairSpec == Spec /\ WF_vars(Next)

-----------------------------------------------------------------------------
(* What the run has sent *)

IsLookup(q) == q.method = "GET" /\ q.url = "dns_records"
IsEcho(q) == q.method = "GET" /\ q.url /= "dns_records"
IsPut(q) == q.method = "PUT"

Lookups == SelectSeq(sent, IsLookup)
EchoGets == SelectSeq(sent, IsEcho)
Puts == SelectSeq(sent, IsPut)
\* the services contacted, in order
EchoCalls == [k \in DOMAIN EchoGets |-> EchoGets[k].url]

\* the reply is an HTTP response with a 2xx status
Ok2xx(r) == r.exc = "" /\ r.status >= 200 /\ r.status < 300
\* the reply is an HTTP response with another status
Non2xx(r) == r.exc = "" /\ ~(r.status >= 200 /\ r.status < 300)
HasIpField(j) == \E m \in j.members : m[1] = "ip"
Logged(line) == \E k \in DOMAIN log : log[k] = line
Ended == pc \in {"exit", "abort"}
\* main has taken the value get_current_ip returned and compared it
Compared == resolver = "returned" /\ pc /= "compare"

\* the one PUT the spec describes for record id rid and address ip
ExpectedPut(rid, ip) ==
    [method |-> "PUT", url |-> "dns_records", id |-> Some(rid),
     data |-> Some([type |-> "A", name |-> A_RECORD_NAME, content |-> ip,
                    ttl |-> 1, proxied |-> FALSE])]

-----------------------------------------------------------------------------
(* C1: when the lookup returned a record and the resolver's result equals   *)
(* the record's stored content (both absent included), no PUT is issued and *)
(* the run ends reporting that the current IP matches.                      *)
C1_NoUpdateWhenEqual ==
    (Compared /\ record /= None /\ record[1].content = current_ip)
        => /\ Puts = <<>>
           /\ pc = "exit"
           /\ log = <<Matches>>
           /\ error = None

\* both the record's content and the resolved address are absent
C1_Witness ==
    /\ Compared
    /\ record /= None
    /\ record[1].content = None
    /\ current_ip = None
    /\ log = <<Matches>>

(* C2: when the record's stored content differs from the resolved IP,       *)
(* exactly one PUT is issued, to the id of the record the lookup returned,  *)
(* with content the resolved IP, ttl 1 and proxied false; never a second.   *)
C2_OnePutWhenDifferent ==
    (Compared /\ record /= None /\ record[1].content /= current_ip)
        => Puts = <<ExpectedPut(record[1].id, current_ip)>>

\* the record holds one address, the resolver found another, the update is done
C2_Witness ==
    /\ pc = "exit"
    /\ record /= None
    /\ record[1].content = Some(<<Addr>>)
    /\ current_ip = Some(<<OtherAddr>>)
    /\ Len(Puts) = 1
    /\ log = <<Updated>>

\* the lookup's reply lists no record named FQDN (the empty list included)
NoneMatches(r) ==
    /\ Ok2xx(r)
    /\ r.result /= None
    /\ \A k \in DOMAIN r.result[1] : r.result[1][k].name /= FQDN

(* C3: when no record of the lookup's reply is named FQDN, the run reports  *)
(* "no record found" and ends normally at once, without an update, and      *)
(* nothing happens after that end.                                          *)
C3_NoRecordNoUpdate ==
    /\ [][(pc = "dns_records" /\ inflight /= None /\ NoneMatches(inflight[1]))
            => /\ pc' = "exit"
               /\ log' = <<NoRecord>>
               /\ error' = None
               /\ sent' = sent]_vars
    /\ []((pc = "exit" /\ log = <<NoRecord>>) => (Puts = <<>> /\ error = None))
    /\ [][pc = "exit" => FALSE]_vars

\* the run ended with "no record found" after the lookup alone
C3_Witness ==
    /\ pc = "exit"
    /\ log = <<NoRecord>>
    /\ record = None
    /\ sent = <<LookupRequest>>

(* C4: once a service has answered with a 2xx status, get_current_ip has    *)
(* returned the value of that answer, every service before it failed, and   *)
(* the services contacted are exactly those up to it.                       *)
C4_ReturnsFirstSuccess ==
    (response /= None /\ Ok2xx(response[1]))
        => /\ resolver = "returned"
           /\ current_ip = (IF response[1].json.type = "invalid"
                             THEN Some(strip(response[1].text))
                             ELSE DictGet(response[1].json, "ip"))
           /\ EchoCalls = SubSeq(services, 1, i)
           /\ warned = SubSeq(services, 1, i - 1)

(* C5 as the spec has it: a 2xx answer that is a JSON object without an ip  *)
(* field makes get_current_ip return the trimmed raw text of that answer.   *)
C5_FallsBackToRawText ==
    (response /= None /\ Ok2xx(response[1]) /\ response[1].json.type = "object"
        /\ ~HasIpField(response[1].json))
        => /\ resolver = "returned"
           /\ current_ip = Some(strip(response[1].text))

(* C5, amended: a 2xx answer that is a JSON object without an ip field      *)
(* makes get_current_ip return None from that same answer; no later service *)
(* is contacted.                                                            *)
C5_AbsentWhenNoIpField ==
    (response /= None /\ Ok2xx(response[1]) /\ response[1].json.type = "object"
        /\ ~HasIpField(response[1].json))
        => /\ resolver = "returned"
           /\ current_ip = None
           /\ EchoCalls = SubSeq(services, 1, i)

\* the second service answered {"cc": ...} and the resolver returned None
C5_Witness ==
    /\ resolver = "returned"
    /\ i = 2
    /\ response = Some(HttpReply(200, <<"{cc}", "\n">>, NoIpObject))
    /\ current_ip = None

(* C6: whatever a service answers, no exception leaves get_current_ip.      *)
C6_NoExceptionEscapes == resolver /= "raised"

C8_AllFailedUpdatesWithNone ==
    (resolver = "returned" /\ Len(warned) = Len(Services))
        => /\ (pc = "compare" => EchoCalls = services)
           /\ \A s \in {Services[k] : k \in DOMAIN Services} :
                 Cardinality({k \in DOMAIN EchoCalls : EchoCalls[k] = s}) = 1
           /\ current_ip = None
           /\ ((Compared /\ record[1].content /= None)
                 => /\ Puts = <<ExpectedPut(record[1].id, None)>>
                    /\ ~Logged(Matches))

\* five warnings, a stored address, and the PUT on its way
C8_Witness ==
    /\ resolver = "returned"
    /\ Len(warned) = 5
    /\ record[1].content = Some(<<Addr>>)
    /\ pc = "update_dns_record"
    /\ Len(Puts) = 1

FalsyPayload(j) ==
    \/ j.type = "object" /\ j.members = {}
    \/ j.type \in {"array", "string", "number", "bool"} /\ j.size = 0
    \/ j.type = "null"

C10_Order ==
    /\ Len(Lookups) <= 1
    /\ Len(Puts) <= 1
    /\ \A a, b \in DOMAIN EchoCalls : a /= b => EchoCalls[a] /= EchoCalls[b]
    /\ sent = Lookups \o EchoGets \o Puts
    /\ (EchoGets /= <<>> => record /= None)
    /\ (Puts /= <<>> => resolver = "returned")
    /\ (pc = "exit" => /\ Len(log) = 1
                       /\ log[1] \in {Updated, Matches, NoRecord, Failed})
    /\ (~Ended => log = <<>>)

====
